---------------------------- MODULE Spec2Model ----------------------------
(***************************************************************************)
(* State-machine model of the mediAI-chatbot backend (app.py, auth.py,     *)
(* models.py): the relational store, the cookie sessions and the request   *)
(* handlers for signup/login/logout, consultant registration, posts,       *)
(* likes, comments and follows.                                            *)
(*                                                                         *)
(* Conventions.  Python strings that the code manipulates (strip, lower)   *)
(* are sequences of one-character strings.  Other strings are TLA+         *)
(* strings.  Python None / SQL NULL is NoneId (0) in integer columns and   *)
(* session slots (row ids start at 1, and the handlers test these slots    *)
(* by truthiness), NoneStr in TLA+-string columns and NoneText in          *)
(* character-sequence slots.                                               *)
(***************************************************************************)
EXTENDS Integers, Sequences, FiniteSets, TLC

VARIABLES
    users,        \* table users          (models.User)
    consultants,  \* table consultants    (models.Consultant)
    posts,        \* table consultant_posts (models.ConsultantPost)
    likes,        \* table likes          (models.Like)
    comments,     \* table comments       (models.Comment)
    followers,    \* table followers      (models.Follower)
    session,      \* client -> the client's starlette session dict
    now,          \* datetime.utcnow(): a logical clock, ticks on each stamped write
    fkEnforced,   \* whether the database engine enforces ForeignKey columns
    inflight,     \* request slot -> a like_post request between its read and its write
    req,          \* the request handled by the last step
    resp,         \* the response it got
    registered,   \* observer: credentials and ids of the successful signups
    hist          \* observer: what the properties read of the earlier requests

store == <<users, consultants, posts, likes, comments, followers>>
vars == <<users, consultants, posts, likes, comments, followers, session, now,
          fkEnforced, inflight, req, resp, registered, hist>>

-----------------------------------------------------------------------------
(* Values *)

NoneId == 0
NoneStr == "None"
NoneText == <<"<None>">>

Clients == {"c1", "c2"}

\* Bounds of the model: the largest row id of each table that loses rows or
\* grows without limit, and the last tick of the clock.
MaxPosts == 2
MaxClock == 3
MaxComments == 2
MaxLikes == 2
MaxFollowers == 2

-----------------------------------------------------------------------------
(* Python str methods used by auth.py and app.py *)

Whitespace == {" ", "\t", "\n"}

\* str.lower() on one character of the model's alphabet
LowerChar(ch) ==
    CASE ch = "A" -> "a"
      [] ch = "B" -> "b"
      [] OTHER -> ch

lower(s) == [i \in 1..Len(s) |-> LowerChar(s[i])]

RECURSIVE lstrip(_)
lstrip(s) ==
    IF s # <<>> /\ Head(s) \in Whitespace THEN lstrip(Tail(s)) ELSE s

RECURSIVE rstrip(_)
rstrip(s) ==
    IF s # <<>> /\ s[Len(s)] \in Whitespace
    THEN rstrip(SubSeq(s, 1, Len(s) - 1))
    ELSE s

strip(s) == rstrip(lstrip(s))

-----------------------------------------------------------------------------
(* auth.py *)

\* hashlib.sha256(...).hexdigest(): modelled as an injective tagging of the
\* hashed text (no collisions among the passwords of the model).
sha256(s) == <<"sha256">> \o s

hash_password(password) == sha256(strip(password))

verify_password(plain_password, hashed_password) ==
    hash_password(strip(plain_password)) = hashed_password

\* Column(Integer, primary_key=True): the id a new row gets.
NewId(rows) ==
    IF rows = {} THEN 1
    ELSE (CHOOSE m \in {r.id : r \in rows} : \A r \in rows : r.id <= m) + 1

\* db.query(User).filter(User.email == email).first()
UserByEmail(email) ==
    IF \E u \in users : u.email = email
    THEN CHOOSE u \in users : u.email = email
    ELSE [id |-> NoneId]

\* Faulty variant of register_user: the email is looked up and stored as
\* typed, neither trimmed nor lowercased.
register_user_raw_email(email, password) ==
    LET existing_user == UserByEmail(email)
    IN  IF existing_user.id # NoneId
        THEN [raised |-> "ValueError", users |-> users]
        ELSE [raised |-> NoneStr,
              users |-> users \cup {[id |-> NewId(users), email |-> email,
                                     hashed_password |-> hash_password(strip(password))]}]

\* register_user(db, email, password): what it raises (NoneStr: nothing) and
\* the users table after it.
register_user(email, password) ==
    LET email1 == lower(strip(email))
        password1 == strip(password)
        existing_user == UserByEmail(email1)
    IN  IF existing_user.id # NoneId
        THEN [raised |-> "ValueError", users |-> users]
        ELSE [raised |-> NoneStr,
              users |-> users \cup {[id |-> NewId(users), email |-> email1,
                                     hashed_password |-> hash_password(password1)]}]

\* Faulty variant of login_user: neither the email nor the candidate
\* password is trimmed.
login_user_no_strip(email, password) ==
    LET user == UserByEmail(lower(email))
    IN  IF user.id = NoneId \/ sha256(password) # user.hashed_password
        THEN [id |-> NoneId]
        ELSE user

\* login_user(db, email, password): the User row, or None ([id |-> NoneId]).
login_user(email, password) ==
    LET user == UserByEmail(lower(strip(email)))
    IN  IF user.id = NoneId \/ ~verify_password(password, user.hashed_password)
        THEN [id |-> NoneId]
        ELSE user

-----------------------------------------------------------------------------
(* Responses of the route handlers *)

\* RedirectResponse(url, status_code): starlette's default status_code is 307
Redirect(url, status_code) == [status |-> status_code, body |-> url]
Template(name, message) == [status |-> 200, body |-> name, message |-> message]
HTTPException(status_code, detail) == [status |-> status_code, body |-> detail]
\* An exception no handler catches: the framework answers 500.
ServerError == [status |-> 500, body |-> "Internal Server Error"]
\* RedirectResponse(request.headers.get("Referer", "/consultants"), 303)
BackToReferer == Redirect("Referer", 303)

-----------------------------------------------------------------------------
(* Sessions *)

NoneDict == <<>>

\* request.session of a client that holds no key (session.get gives None)
EmptySession ==
    [user_id |-> NoneId, user_email |-> NoneText,
     consultant_id |-> NoneId, consultant_email |-> NoneStr,
     consultant |-> NoneDict]

Idle == [op |-> "idle"]
Slots == {1, 2}

Init ==
    /\ users = {}
    /\ consultants = {}
    /\ posts = {}
    /\ likes = {}
    /\ comments = {}
    /\ followers = {}
    /\ session = [c \in Clients |-> EmptySession]
    /\ now = 0
    /\ fkEnforced \in BOOLEAN
    /\ inflight = [s \in Slots |-> Idle]
    /\ req = [op |-> "init"]
    /\ resp = [status |-> 0, body |-> "init"]
    /\ registered = {}
    /\ hist = <<>>

-----------------------------------------------------------------------------
(* Auth / user routes (app.py) *)

\* POST /signup
signup_user_route(c, email, password) ==
    LET r == register_user(email, password)
    IN  /\ users' = r.users
        /\ resp' = IF r.raised = "ValueError"
                   THEN Template("signup.html", "Email already registered. Please log in.")
                   ELSE Redirect("/login", 303)
        /\ req' = [op |-> "signup", client |-> c, email |-> email, password |-> password]
        /\ UNCHANGED <<consultants, posts, likes, comments, followers, session,
                       now, fkEnforced, inflight>>

\* Faulty variant of login_user_route: an unknown email gets its own message
\* (as forgot_password_submit does).
login_user_route_leaky(c, email, password) ==
    LET user == login_user(email, password)
    IN  /\ IF user.id = NoneId
           THEN /\ resp' = IF UserByEmail(lower(strip(email))).id = NoneId
                           THEN Template("login.html", "Email not found! Please try again.")
                           ELSE Template("login.html", "Incorrect email or password.")
                /\ session' = session
           ELSE /\ session' = [session EXCEPT ![c].user_id = user.id,
                                              ![c].user_email = user.email]
                /\ resp' = Redirect("/home", 303)
        /\ req' = [op |-> "login", client |-> c, email |-> email, password |-> password]
        /\ UNCHANGED <<store, now, fkEnforced, inflight>>

\* POST /login
login_user_route(c, email, password) ==
    LET user == login_user(email, password)
    IN  /\ IF user.id = NoneId
           THEN /\ resp' = Template("login.html", "Incorrect email or password.")
                /\ session' = session
           ELSE /\ session' = [session EXCEPT ![c].user_id = user.id,
                                              ![c].user_email = user.email]
                /\ resp' = Redirect("/home", 303)
        /\ req' = [op |-> "login", client |-> c, email |-> email, password |-> password]
        /\ UNCHANGED <<store, now, fkEnforced, inflight>>

\* Faulty variant of logout: only the user keys are removed, the consultant
\* keys stay.
logout_user_keys_only(c) ==
    /\ session' = [session EXCEPT ![c].user_id = NoneId, ![c].user_email = NoneText]
    /\ resp' = Redirect("/login", 303)
    /\ req' = [op |-> "logout", client |-> c]
    /\ UNCHANGED <<store, now, fkEnforced, inflight>>

\* GET /logout
logout(c) ==
    /\ session' = [session EXCEPT ![c] = EmptySession]
    /\ resp' = Redirect("/login", 303)
    /\ req' = [op |-> "logout", client |-> c]
    /\ UNCHANGED <<store, now, fkEnforced, inflight>>

-----------------------------------------------------------------------------
(* Uploads.  An uploaded file is given by its filename; the uploads        *)
(* directory itself and the unique prefix save_upload generates are not    *)
(* modelled: the saved name is represented by its extension.               *)

\* os.path.splitext(file.filename)[1].lower()
SplitExtLower(filename) ==
    CASE filename = "clip.MP4" -> ".mp4"
      [] filename = "scan.png" -> ".png"
      [] OTHER -> ""

\* save_upload(file): None without a file, else the saved name
save_upload(file) == IF file = NoneStr THEN NoneStr ELSE SplitExtLower(file)

VideoExts == {".mp4", ".mov", ".avi", ".webm"}

\* "video" if os.path.splitext(filename)[1].lower() in [...] else "image"
MediaTypeOf(filename) == IF filename \in VideoExts THEN "video" ELSE "image"

-----------------------------------------------------------------------------
(* Queries *)

\* db.query(Model).get(id): the row, or None ([id |-> NoneId])
Get(rows, id) ==
    IF \E r \in rows : r.id = id
    THEN CHOOSE r \in rows : r.id = id
    ELSE [id |-> NoneId]

\* Faulty variant of LikesOf: user_id None compares as = NULL, which no row
\* satisfies.
LikesOf_null_matches_nothing(rows, post_id, user_id) ==
    {l \in rows : l.post_id = post_id /\ l.user_id = user_id /\ user_id # NoneId}

\* db.query(Like).filter(Like.post_id == post_id, Like.user_id == user_id)
\* (user_id None compares as IS NULL)
LikesOf(rows, post_id, user_id) ==
    {l \in rows : l.post_id = post_id /\ l.user_id = user_id}

\* db.query(Follower).filter(Follower.consultant_id == ..., Follower.user_id == ...)
FollowersOf(rows, consultant_id, user_id) ==
    {f \in rows : f.consultant_id = consultant_id /\ f.user_id = user_id}

\* db.query(Like).filter(Like.post_id == p.id).count()
likes_count(rows, post_id) == Cardinality({l \in rows : l.post_id = post_id})

-----------------------------------------------------------------------------
(* Consultant registration *)

\* Faulty variant of consultant_register_submit: the email is not looked up,
\* every registration adds a Consultant.
consultant_register_submit_always_adds(c, name, email, specialization, bio, media) ==
    LET pic_filename == save_upload(media)
        consultant == [id |-> NewId(consultants), name |-> name, email |-> email,
                       specialization |-> specialization, bio |-> bio,
                       media_path |-> pic_filename,
                       media_type |-> IF pic_filename # NoneStr THEN "image" ELSE NoneStr]
    IN  /\ consultants' = consultants \cup {consultant}
        /\ session' = [session EXCEPT
               ![c].consultant_id = consultant.id,
               ![c].consultant_email = consultant.email,
               ![c].consultant = <<[name |-> consultant.name,
                                    email |-> consultant.email,
                                    specialization |-> consultant.specialization,
                                    profile_pic |-> consultant.media_path]>>]
        /\ resp' = Redirect("/consultant_post", 303)
        /\ req' = [op |-> "consultant_register", client |-> c, name |-> name,
                   email |-> email, specialization |-> specialization, bio |-> bio]
        /\ UNCHANGED <<users, posts, likes, comments, followers, now, fkEnforced, inflight>>

\* POST /consultant-register
consultant_register_submit(c, name, email, specialization, bio, media) ==
    LET pic_filename == save_upload(media)
        found == {k \in consultants : k.email = email}
    IN  /\ \E row \in (IF found = {} THEN {[id |-> NoneId]} ELSE found) :
             LET consultant ==
                   IF row.id = NoneId
                   THEN [id |-> NewId(consultants), name |-> name, email |-> email,
                         specialization |-> specialization, bio |-> bio,
                         media_path |-> pic_filename,
                         media_type |-> IF pic_filename # NoneStr THEN "image" ELSE NoneStr]
                   ELSE [row EXCEPT
                           !.name = name,
                           !.specialization = specialization,
                           !.bio = bio,
                           !.media_path = IF pic_filename # NoneStr THEN pic_filename ELSE @,
                           !.media_type = IF pic_filename # NoneStr THEN "image" ELSE @]
             IN  /\ consultants' = (consultants \ {row}) \cup {consultant}
                 /\ session' = [session EXCEPT
                        ![c].consultant_id = consultant.id,
                        ![c].consultant_email = consultant.email,
                        ![c].consultant = <<[name |-> consultant.name,
                                             email |-> consultant.email,
                                             specialization |-> consultant.specialization,
                                             profile_pic |-> consultant.media_path]>>]
        /\ resp' = Redirect("/consultant_post", 303)
        /\ req' = [op |-> "consultant_register", client |-> c, name |-> name,
                   email |-> email, specialization |-> specialization, bio |-> bio]
        /\ UNCHANGED <<users, posts, likes, comments, followers, now, fkEnforced, inflight>>

\* GET /consultant_post: the dashboard.  Without a consultant_id the session
\* is given the id of the consultant its legacy "consultant" entry names.
consultant_post_page(c) ==
    LET consultant_session == session[c].consultant
        found == IF session[c].consultant_id = NoneId /\ consultant_session # NoneDict
                 THEN {k \in consultants : k.email = consultant_session[1].email}
                 ELSE {}
    IN  /\ req' = [op |-> "consultant_post_page", client |-> c]
        /\ \E consultant \in (IF found = {} THEN {[id |-> NoneId]} ELSE found) :
              LET consultant_id == IF session[c].consultant_id # NoneId
                                   THEN session[c].consultant_id
                                   ELSE consultant.id
              IN  /\ session' = IF consultant.id # NoneId
                                THEN [session EXCEPT ![c].consultant_id = consultant.id]
                                ELSE session
                  /\ resp' = IF consultant_id = NoneId
                             THEN Redirect("/consultant-register", 307)
                             ELSE Template("consultant_post.html", NoneStr)
        /\ UNCHANGED <<store, now, fkEnforced, inflight>>

-----------------------------------------------------------------------------
(* Posts *)

\* Faulty variant of consultant_post_submit: the session is not checked.
consultant_post_submit_unchecked(c, content, media) ==
    LET consultant_id == session[c].consultant_id
        filename == save_upload(media)
        media_type == IF filename # NoneStr THEN MediaTypeOf(filename) ELSE NoneStr
    IN  /\ req' = [op |-> "create_post", client |-> c]
        /\ NewId(posts) <= MaxPosts
        /\ now < MaxClock
        /\ posts' = posts \cup
              {[id |-> NewId(posts), consultant_id |-> consultant_id,
                content |-> content, media_path |-> filename,
                media_type |-> media_type, timestamp |-> now]}
        /\ now' = now + 1
        /\ resp' = Redirect("/consultant_post", 303)
        /\ UNCHANGED <<users, consultants, likes, comments, followers, session,
                       fkEnforced, inflight>>

\* POST /consultant_post
consultant_post_submit(c, content, media) ==
    LET consultant_id == session[c].consultant_id
        filename == save_upload(media)
        media_type == IF filename # NoneStr THEN MediaTypeOf(filename) ELSE NoneStr
    IN  /\ req' = [op |-> "create_post", client |-> c]
        /\ IF consultant_id = NoneId
           THEN /\ resp' = Redirect("/consultant-register", 307)
                /\ UNCHANGED <<posts, now>>
           ELSE /\ NewId(posts) <= MaxPosts
                /\ now < MaxClock
                /\ posts' = posts \cup
                      {[id |-> NewId(posts), consultant_id |-> consultant_id,
                        content |-> content, media_path |-> filename,
                        media_type |-> media_type, timestamp |-> now]}
                /\ now' = now + 1
                /\ resp' = Redirect("/consultant_post", 303)
        /\ UNCHANGED <<users, consultants, likes, comments, followers, session,
                       fkEnforced, inflight>>

\* Faulty variant of NotAuthorized: any consultant may change any post.
NotAuthorized_exists_only(post, consultant_id) == post.id = NoneId

\* The ownership test of edit_post and delete_post
NotAuthorized(post, consultant_id) ==
    post.id = NoneId \/ post.consultant_id # consultant_id

\* POST /edit_post
edit_post(c, post_id, new_bio, new_media) ==
    LET consultant_id == session[c].consultant_id
        post == Get(posts, post_id)
    IN  /\ req' = [op |-> "edit_post", client |-> c, post_id |-> post_id]
        /\ IF consultant_id = NoneId
           THEN /\ resp' = Redirect("/consultant-register", 307)
                /\ UNCHANGED <<posts, now>>
           ELSE IF NotAuthorized(post, consultant_id)
           THEN /\ resp' = HTTPException(403, "Not authorized to edit")
                /\ UNCHANGED <<posts, now>>
           ELSE /\ now < MaxClock
                /\ posts' = (posts \ {post}) \cup
                      {[post EXCEPT
                          !.media_path = IF new_media # NoneStr
                                         THEN save_upload(new_media) ELSE @,
                          !.media_type = IF new_media # NoneStr
                                         THEN MediaTypeOf(save_upload(new_media)) ELSE @,
                          !.content = new_bio,
                          !.timestamp = now]}
                /\ now' = now + 1
                /\ resp' = Redirect("/consultant_post", 303)
        /\ UNCHANGED <<users, consultants, likes, comments, followers, session,
                       fkEnforced, inflight>>

\* Faulty variant of delete_post: the post's row alone is deleted, its likes
\* and comments stay.
delete_post_no_cascade(c, post_id) ==
    LET consultant_id == session[c].consultant_id
        post == Get(posts, post_id)
    IN  /\ req' = [op |-> "delete_post", client |-> c, post_id |-> post_id]
        /\ IF consultant_id = NoneId
           THEN /\ resp' = Redirect("/consultant-register", 307)
                /\ UNCHANGED posts
           ELSE IF NotAuthorized(post, consultant_id)
           THEN /\ resp' = HTTPException(403, "Not authorized to delete")
                /\ UNCHANGED posts
           ELSE /\ posts' = posts \ {post}
                /\ resp' = Redirect("/consultant_post", 303)
        /\ UNCHANGED <<users, consultants, likes, comments, followers, session, now,
                       fkEnforced, inflight>>

\* POST /delete_post.  db.delete(post) cascades over post.likes and
\* post.comments (relationship(..., cascade="all, delete")).
delete_post(c, post_id) ==
    LET consultant_id == session[c].consultant_id
        post == Get(posts, post_id)
    IN  /\ req' = [op |-> "delete_post", client |-> c, post_id |-> post_id]
        /\ IF consultant_id = NoneId
           THEN /\ resp' = Redirect("/consultant-register", 307)
                /\ UNCHANGED <<posts, likes, comments>>
           ELSE IF NotAuthorized(post, consultant_id)
           THEN /\ resp' = HTTPException(403, "Not authorized to delete")
                /\ UNCHANGED <<posts, likes, comments>>
           ELSE /\ posts' = posts \ {post}
                /\ likes' = {l \in likes : l.post_id # post.id}
                /\ comments' = {k \in comments : k.post_id # post.id}
                /\ resp' = Redirect("/consultant_post", 303)
        /\ UNCHANGED <<users, consultants, followers, session, now, fkEnforced, inflight>>

-----------------------------------------------------------------------------
(* Likes.  like_post reads the store (line 514) and writes it (lines       *)
(* 516-517 or 519-521) in two statements.  LikeRead and LikeWrite are the  *)
(* two halves; like_post is the request handled alone, both halves in one  *)
(* step; like_post_read and like_post_write are the halves of a request    *)
(* that runs while others do.                                              *)

\* .first() of the filtered query: the ids it may return (NoneId: no row).
\* Without ORDER BY any matching row may come first.
LikeRead(post_id, user_id) ==
    IF LikesOf(likes, post_id, user_id) = {}
    THEN {NoneId}
    ELSE {l.id : l \in LikesOf(likes, post_id, user_id)}

\* Faulty variant of LikeWrite: an existing Like is not removed, another is
\* added.
LikeWrite_never_deletes(c, post_id, user_id, existing) ==
    LET post == Get(posts, post_id)
    IN  /\ req' = [op |-> "like", client |-> c, user_id |-> user_id, post_id |-> post_id]
        /\ NewId(likes) <= MaxLikes
        /\ likes' = likes \cup
              {[id |-> NewId(likes), user_id |-> user_id,
                consultant_id |-> IF post.id # NoneId THEN post.consultant_id ELSE NoneId,
                post_id |-> post_id]}
        /\ resp' = BackToReferer

\* The rest of like_post, given what the read returned
LikeWrite(c, post_id, user_id, existing) ==
    LET post == Get(posts, post_id)
    IN  /\ req' = [op |-> "like", client |-> c, user_id |-> user_id, post_id |-> post_id]
        /\ IF existing # NoneId
           THEN /\ likes' = {l \in likes : l.id # existing}
                /\ resp' = BackToReferer
           ELSE IF post.id = NoneId /\ fkEnforced
           THEN \* the INSERT violates likes.post_id's foreign key: IntegrityError
                /\ likes' = likes
                /\ resp' = ServerError
           ELSE /\ NewId(likes) <= MaxLikes
                /\ likes' = likes \cup
                      {[id |-> NewId(likes), user_id |-> user_id,
                        consultant_id |-> IF post.id # NoneId
                                          THEN post.consultant_id ELSE NoneId,
                        post_id |-> post_id]}
                /\ resp' = BackToReferer

\* POST /post/{post_id}/like, handled alone
like_post(c, post_id) ==
    LET user_id == session[c].user_id
    IN  /\ \E existing \in LikeRead(post_id, user_id) :
              LikeWrite(c, post_id, user_id, existing)
        /\ UNCHANGED <<users, consultants, posts, comments, followers, session,
                       now, fkEnforced, inflight>>

\* POST /post/{post_id}/like, up to the query of line 514, in request slot s
like_post_read(s, c, post_id) ==
    LET user_id == session[c].user_id
    IN  /\ inflight[s] = Idle
        /\ \E existing \in LikeRead(post_id, user_id) :
              inflight' = [inflight EXCEPT ![s] =
                  [op |-> "like", client |-> c, user_id |-> user_id,
                   post_id |-> post_id, existing |-> existing]]
        /\ UNCHANGED <<store, session, now, fkEnforced, req, resp>>

\* ... and from there to its response
like_post_write(s) ==
    /\ inflight[s] # Idle
    /\ LikeWrite(inflight[s].client, inflight[s].post_id, inflight[s].user_id,
                 inflight[s].existing)
    /\ inflight' = [inflight EXCEPT ![s] = Idle]
    /\ UNCHANGED <<users, consultants, posts, comments, followers, session,
                   now, fkEnforced>>

-----------------------------------------------------------------------------
(* Comments *)

\* Faulty variant of IsBlank: only the empty text is blank.
IsBlank_no_strip(comment_text) == comment_text = <<>>

\* not comment_text or not comment_text.strip()
IsBlank(comment_text) == comment_text = <<>> \/ strip(comment_text) = <<>>

\* POST /post/{post_id}/comment
comment_post(c, post_id, comment_text) ==
    LET user_id == session[c].user_id
        post == Get(posts, post_id)
    IN  /\ req' = [op |-> "comment", client |-> c, user_id |-> user_id,
                   post_id |-> post_id, comment_text |-> comment_text]
        /\ IF IsBlank(comment_text)
           THEN /\ resp' = BackToReferer
                /\ UNCHANGED <<comments, now>>
           ELSE IF post.id = NoneId
           THEN /\ resp' = HTTPException(404, "Post not found")
                /\ UNCHANGED <<comments, now>>
           ELSE /\ NewId(comments) <= MaxComments
                /\ now < MaxClock
                /\ comments' = comments \cup
                      {[id |-> NewId(comments), user_id |-> user_id,
                        post_id |-> post_id, consultant_id |-> post.consultant_id,
                        comment_text |-> comment_text, timestamp |-> now]}
                /\ now' = now + 1
                /\ resp' = BackToReferer
        /\ UNCHANGED <<users, consultants, posts, likes, followers, session,
                       fkEnforced, inflight>>

\* db.query(Comment).filter(Comment.post_id == p.id)
\*   .order_by(Comment.timestamp.asc()).all(), as the sequence of comment ids
RECURSIVE SortedByTimestamp(_)
SortedByTimestamp(rows) ==
    IF rows = {} THEN <<>>
    ELSE LET first == CHOOSE r \in rows :
                         \A q \in rows : r.timestamp < q.timestamp \/ r = q
                            \/ (r.timestamp = q.timestamp /\ r.id < q.id)
         IN  <<first.id>> \o SortedByTimestamp(rows \ {first})

CommentsOf(rows, post_id) == SortedByTimestamp({k \in rows : k.post_id = post_id})

-----------------------------------------------------------------------------
(* Follows *)

\* Faulty variant of follow_consultant: the existing Follower is not looked
\* up, a row is added on every call.
follow_consultant_always_adds(c, consultant_id) ==
    LET user_id == session[c].user_id
    IN  /\ req' = [op |-> "follow", client |-> c, user_id |-> user_id,
                   consultant_id |-> consultant_id]
        /\ NewId(followers) <= MaxFollowers
        /\ followers' = followers \cup
              {[id |-> NewId(followers), user_id |-> user_id,
                consultant_id |-> consultant_id]}
        /\ resp' = BackToReferer
        /\ UNCHANGED <<users, consultants, posts, likes, comments, session,
                       now, fkEnforced, inflight>>

\* POST /consultant/{consultant_id}/follow
follow_consultant(c, consultant_id) ==
    LET user_id == session[c].user_id
        matching == FollowersOf(followers, consultant_id, user_id)
    IN  /\ req' = [op |-> "follow", client |-> c, user_id |-> user_id,
                   consultant_id |-> consultant_id]
        /\ IF matching # {}
           THEN /\ \E existing \in matching : followers' = followers \ {existing}
                /\ resp' = BackToReferer
           ELSE IF Get(consultants, consultant_id).id = NoneId /\ fkEnforced
           THEN \* the INSERT violates followers.consultant_id's foreign key
                /\ followers' = followers
                /\ resp' = ServerError
           ELSE /\ NewId(followers) <= MaxFollowers
                /\ followers' = followers \cup
                      {[id |-> NewId(followers), user_id |-> user_id,
                        consultant_id |-> consultant_id]}
                /\ resp' = BackToReferer
        /\ UNCHANGED <<users, consultants, posts, likes, comments, session,
                       now, fkEnforced, inflight>>

-----------------------------------------------------------------------------
(* Public feed *)

\* value ILIKE '%pattern%': pattern occurs in value, letter case ignored
ilike_contains(value, pattern) ==
    \E i \in 1..(Len(value) - Len(pattern) + 1) :
        lower(SubSeq(value, i, i + Len(pattern) - 1)) = lower(pattern)

\* .order_by(ConsultantPost.timestamp.desc()).all(), as the sequence of post ids
RECURSIVE SortedByTimestampDesc(_)
SortedByTimestampDesc(rows) ==
    IF rows = {} THEN <<>>
    ELSE LET first == CHOOSE r \in rows :
                         \A q \in rows : r.timestamp > q.timestamp \/ r = q
                            \/ (r.timestamp = q.timestamp /\ r.id < q.id)
         IN  <<first.id>> \o SortedByTimestampDesc(rows \ {first})

\* The query of consultants_page without q: the posts joined with their
\* consultants, filtered by specialization if one is given, newest timestamp
\* first.
feed_query(specialization) ==
    LET joined == {p \in posts : Get(consultants, p.consultant_id).id # NoneId}
        matching ==
            IF specialization \in {NoneText, <<>>}
            THEN joined
            ELSE {p \in joined :
                    ilike_contains(Get(consultants, p.consultant_id).specialization,
                                   specialization)}
    IN  SortedByTimestampDesc(matching)

\* GET /consultants?specialization=...
consultants_page(c, specialization) ==
    /\ req' = [op |-> "list_feed", client |-> c, specialization |-> specialization]
    /\ resp' = [status |-> 200, body |-> "consultants.html",
                posts |-> feed_query(specialization)]
    /\ UNCHANGED <<store, session, now, fkEnforced, inflight>>

-----------------------------------------------------------------------------
(* Observers: history the properties read; no handler reads them *)

\* registered: one entry per signup that created a User
ObserveRegistered ==
    registered' =
        IF req'.op = "signup" /\ users' # users
        THEN registered \cup
                {[email |-> req'.email, password |-> req'.password,
                  id |-> (CHOOSE u \in users' \ users : TRUE).id]}
        ELSE registered

\* What a toggle request is keyed on
ToggleKey(r) ==
    IF r.op = "like"
    THEN <<"like", r.user_id, r.post_id>>
    ELSE <<"follow", r.user_id, r.consultant_id>>

PairCount(r) ==
    IF r.op = "like"
    THEN Cardinality(LikesOf(likes, r.post_id, r.user_id))
    ELSE Cardinality(FollowersOf(followers, r.consultant_id, r.user_id))

TargetCount(r) ==
    IF r.op = "like"
    THEN likes_count(likes, r.post_id)
    ELSE Cardinality({f \in followers : f.consultant_id = r.consultant_id})

\* hist: empty unless the last request was a toggle (like, follow).  Then
\* hist[1] is that request with what it found: n, the number of rows of its
\* pair, and count, the number of rows of its target; and hist[2] is the same
\* for the request before it, if that was a toggle of the same pair.
ObserveHist ==
    hist' =
        IF req'.op \in {"like", "follow"}
        THEN <<[req |-> req', n |-> PairCount(req'), count |-> TargetCount(req')]>>
                \o (IF hist # <<>> /\ ToggleKey(hist[1].req) = ToggleKey(req')
                    THEN <<hist[1]>> ELSE <<>>)
        ELSE <<>>

\* hist for deletions: empty unless the last request was a delete_post.  Then
\* hist[1] is that request with what it found: n, the number of likes of its
\* post, and count, the number of comments of its post.
ObserveCascade ==
    hist' =
        IF req'.op = "delete_post"
        THEN <<[req |-> req', n |-> likes_count(likes, req'.post_id),
                count |-> Len(CommentsOf(comments, req'.post_id))]>>
        ELSE <<>>

\* hist for the feed: one entry per post created, in the order of creation:
\* the request, n, the id of the post, and count, the time of its creation.
ObserveCreated ==
    hist' =
        IF req'.op = "create_post" /\ posts' # posts
        THEN LET post == CHOOSE p \in posts' \ posts : TRUE
             IN  Append(hist, [req |-> req', n |-> post.id, count |-> post.timestamp])
        ELSE hist

\* hist for logouts: one entry, the logout request, per client that has
\* logged out and has since neither logged in nor registered as a consultant.
ObserveLogout ==
    LET others == SelectSeq(hist, LAMBDA h : h.req.client # req'.client)
    IN  hist' =
            IF req'.op = "logout"
            THEN Append(others, [req |-> req'])
            ELSE IF \/ (req'.op = "login" /\ resp' = Redirect("/home", 303))
                    \/ req'.op = "consultant_register"
            THEN others
            ELSE hist

Unobserved == UNCHANGED <<registered, hist>>

-----------------------------------------------------------------------------
(* Inputs *)

PostIds == 1..MaxPosts
ConsultantIds == {1, 2}

AuthEmails == {<<"a">>, <<" ", "A", " ">>, <<"b">>}
AuthPasswords == {<<"p", " ">>, <<"q">>}

Files == {NoneStr, "clip.MP4", "scan.png"}
CommentTexts == {<<>>, <<" ">>, <<"o", "k">>}

\* POST /consultant-register with the profile of the consultant named email
RegisterAs(c, email) ==
    consultant_register_submit(c, "Dr " \o email, email, "Nutrition", "", NoneStr)

-----------------------------------------------------------------------------
(* SpecAuth: the credential service (signup, login, logout) *)

AuthSignup ==
    \E c \in Clients, e \in AuthEmails, p \in AuthPasswords :
        (signup_user_route(c, e, p) /\ ObserveRegistered /\ UNCHANGED hist)
AuthLogin ==
    \E c \in Clients, e \in AuthEmails, p \in AuthPasswords :
        (login_user_route(c, e, p) /\ ObserveRegistered /\ UNCHANGED hist)
AuthLogout == \E c \in Clients : (logout(c) /\ ObserveRegistered /\ UNCHANGED hist)

NextAuth == AuthSignup \/ AuthLogin \/ AuthLogout

SpecAuth == Init /\ [][NextAuth]_vars

-----------------------------------------------------------------------------
(* SpecPosts: consultants and their posts, with anonymous likes and        *)
(* comments on the first of them; requests run one at a time               *)

PostsRegister ==
    \/ (RegisterAs("c1", "x") /\ Unobserved)
    \/ (RegisterAs("c2", "y") /\ Unobserved)
PostsCreate ==
    \E c \in Clients : (consultant_post_submit(c, "t1", "clip.MP4") /\ Unobserved)
PostsEdit ==
    \E c \in Clients, post_id \in PostIds, new_media \in {NoneStr, "scan.png"} :
        (edit_post(c, post_id, "t2", new_media) /\ Unobserved)
PostsDelete ==
    \E c \in Clients, post_id \in PostIds : (delete_post(c, post_id) /\ Unobserved)
PostsLike == (like_post("c1", 1) /\ Unobserved)
PostsComment == (comment_post("c2", 1, <<"o", "k">>) /\ Unobserved)

NextPosts ==
    PostsRegister \/ PostsCreate \/ PostsEdit \/ PostsDelete \/ PostsLike \/ PostsComment

SpecPosts == Init /\ [][NextPosts]_vars

-----------------------------------------------------------------------------
(* SpecComments: comments by a user and by anonymous clients on a          *)
(* consultant's posts; requests run one at a time                          *)

CommentsSignup == (signup_user_route("c2", <<"a">>, <<"q">>) /\ Unobserved)
CommentsLogin == (login_user_route("c2", <<"a">>, <<"q">>) /\ Unobserved)
CommentsRegister == (RegisterAs("c1", "x") /\ Unobserved)
CommentsCreate == (consultant_post_submit("c1", "t1", NoneStr) /\ Unobserved)
CommentsDelete == \E post_id \in PostIds : (delete_post("c1", post_id) /\ Unobserved)
CommentsComment ==
    \E c \in Clients, post_id \in PostIds, text \in CommentTexts :
        (comment_post(c, post_id, text) /\ Unobserved)

NextComments ==
    \/ CommentsSignup \/ CommentsLogin \/ CommentsRegister
    \/ CommentsCreate \/ CommentsDelete \/ CommentsComment

SpecComments == Init /\ [][NextComments]_vars

-----------------------------------------------------------------------------
(* SpecLikes: likes by a user and by anonymous clients; requests run one   *)
(* at a time                                                               *)

LikesSignup == (signup_user_route("c2", <<"a">>, <<"q">>) /\ ObserveHist /\ UNCHANGED registered)
LikesLogin == (login_user_route("c2", <<"a">>, <<"q">>) /\ ObserveHist /\ UNCHANGED registered)
LikesRegister == (RegisterAs("c1", "x") /\ ObserveHist /\ UNCHANGED registered)
LikesCreate == (consultant_post_submit("c1", "t1", NoneStr) /\ ObserveHist /\ UNCHANGED registered)
LikesDelete == \E post_id \in PostIds : (delete_post("c1", post_id) /\ ObserveHist /\ UNCHANGED registered)
LikesLike == \E c \in Clients, post_id \in PostIds : (like_post(c, post_id) /\ ObserveHist /\ UNCHANGED registered)

NextLikes ==
    LikesSignup \/ LikesLogin \/ LikesRegister \/ LikesCreate \/ LikesDelete \/ LikesLike

SpecLikes == Init /\ [][NextLikes]_vars

-----------------------------------------------------------------------------
(* SpecFollow: follows by a user and by anonymous clients; requests run    *)
(* one at a time                                                           *)

FollowSignup == (signup_user_route("c2", <<"a">>, <<"q">>) /\ ObserveHist /\ UNCHANGED registered)
FollowLogin == (login_user_route("c2", <<"a">>, <<"q">>) /\ ObserveHist /\ UNCHANGED registered)
FollowLogout == (logout("c2") /\ ObserveHist /\ UNCHANGED registered)
FollowRegister == \E email \in {"x", "y"} : (RegisterAs("c1", email) /\ ObserveHist /\ UNCHANGED registered)
FollowFollow ==
    \E c \in Clients, consultant_id \in ConsultantIds :
        (follow_consultant(c, consultant_id) /\ ObserveHist /\ UNCHANGED registered)

NextFollow ==
    FollowSignup \/ FollowLogin \/ FollowLogout \/ FollowRegister \/ FollowFollow

SpecFollow == Init /\ [][NextFollow]_vars

-----------------------------------------------------------------------------
(* SpecDelete: a consultant's posts with the likes and comments of an      *)
(* anonymous client, and their deletion; requests run one at a time        *)

DeleteSignup == (signup_user_route("c2", <<"a">>, <<"q">>) /\ ObserveCascade /\ UNCHANGED registered)
DeleteRegister == (RegisterAs("c1", "x") /\ ObserveCascade /\ UNCHANGED registered)
DeleteCreate == (consultant_post_submit("c1", "t1", NoneStr) /\ ObserveCascade /\ UNCHANGED registered)
DeleteDelete ==
    \E post_id \in PostIds : (delete_post("c1", post_id) /\ ObserveCascade /\ UNCHANGED registered)
DeleteLike ==
    \E post_id \in PostIds : (like_post("c2", post_id) /\ ObserveCascade /\ UNCHANGED registered)
DeleteComment ==
    \E post_id \in PostIds :
        (comment_post("c2", post_id, <<"o", "k">>) /\ ObserveCascade /\ UNCHANGED registered)
DeleteFollow == (follow_consultant("c2", 1) /\ ObserveCascade /\ UNCHANGED registered)

NextDelete ==
    \/ DeleteSignup \/ DeleteRegister \/ DeleteCreate
    \/ DeleteDelete \/ DeleteLike \/ DeleteComment \/ DeleteFollow

SpecDelete == Init /\ [][NextDelete]_vars

-----------------------------------------------------------------------------
(* SpecFeed: two consultants of different specializations, their posts,    *)
(* the edits of them and the public feed; no post is deleted               *)

FeedFilters == {NoneText, <<"a">>, <<"a", "B">>, <<"b", "b">>}

FeedRegister ==
    \/ (consultant_register_submit("c1", "Dr x", "x", <<"A", "b">>, "", NoneStr)
          /\ ObserveCreated /\ UNCHANGED registered)
    \/ (consultant_register_submit("c2", "Dr y", "y", <<"B", "a">>, "", NoneStr)
          /\ ObserveCreated /\ UNCHANGED registered)
FeedCreate ==
    \E c \in Clients :
        (consultant_post_submit(c, "t1", NoneStr) /\ ObserveCreated /\ UNCHANGED registered)
FeedEdit ==
    \E c \in Clients, post_id \in PostIds :
        (edit_post(c, post_id, "t2", NoneStr) /\ ObserveCreated /\ UNCHANGED registered)
FeedList ==
    \E c \in Clients, specialization \in FeedFilters :
        (consultants_page(c, specialization) /\ ObserveCreated /\ UNCHANGED registered)

NextFeed == FeedRegister \/ FeedCreate \/ FeedEdit \/ FeedList

SpecFeed == Init /\ [][NextFeed]_vars

-----------------------------------------------------------------------------
(* SpecLogout: a client that is a user and a consultant, and what it does  *)
(* before and after logging out: it manages its posts, and likes, comments *)
(* and follows what exists; requests run one at a time.  No request here   *)
(* inserts a row that references a missing row, so fkEnforced changes no   *)
(* step of this specification, which starts with it off.                   *)

InitLogout == Init /\ ~fkEnforced

LogoutSignup == (signup_user_route("c2", <<"a">>, <<"q">>) /\ ObserveLogout /\ UNCHANGED registered)
LogoutLogin == (login_user_route("c2", <<"a">>, <<"q">>) /\ ObserveLogout /\ UNCHANGED registered)
LogoutRegister == (RegisterAs("c2", "x") /\ ObserveLogout /\ UNCHANGED registered)
LogoutLogout == (logout("c2") /\ ObserveLogout /\ UNCHANGED registered)
LogoutDashboard == (consultant_post_page("c2") /\ ObserveLogout /\ UNCHANGED registered)
LogoutCreate == (consultant_post_submit("c2", "t1", NoneStr) /\ ObserveLogout /\ UNCHANGED registered)
LogoutEdit == (edit_post("c2", 1, "t2", NoneStr) /\ ObserveLogout /\ UNCHANGED registered)
LogoutDelete == (delete_post("c2", 1) /\ ObserveLogout /\ UNCHANGED registered)
LogoutLike ==
    (/\ Get(posts, 1).id # NoneId
     /\ like_post("c2", 1) /\ ObserveLogout /\ UNCHANGED registered)
LogoutComment == (comment_post("c2", 1, <<"o", "k">>) /\ ObserveLogout /\ UNCHANGED registered)
LogoutFollow ==
    (/\ Get(consultants, 1).id # NoneId
     /\ follow_consultant("c2", 1) /\ ObserveLogout /\ UNCHANGED registered)

NextLogout ==
    \/ LogoutSignup \/ LogoutLogin \/ LogoutRegister \/ LogoutLogout \/ LogoutDashboard
    \/ LogoutCreate \/ LogoutEdit \/ LogoutDelete
    \/ LogoutLike \/ LogoutComment \/ LogoutFollow

SpecLogout == InitLogout /\ [][NextLogout]_vars

-----------------------------------------------------------------------------
(* SpecRegister: two clients, each with its own profile, that register as  *)
(* consultants, the second under the email of the first or under another   *)
(* spelling of it; the first creates posts, both edit and delete posts;    *)
(* requests run one at a time                                              *)

RegisterEmails == {"x", "X"}

RegisterRegister ==
    \/ (consultant_register_submit("c1", "n1", "x", "s1", "b1", NoneStr) /\ Unobserved)
    \/ \E email \in RegisterEmails :
          (consultant_register_submit("c2", "n2", email, "s2", "b2", "scan.png")
             /\ Unobserved)
RegisterCreate == (consultant_post_submit("c1", "t1", NoneStr) /\ Unobserved)
RegisterEdit ==
    \E c \in Clients, post_id \in PostIds :
        (edit_post(c, post_id, "t2", NoneStr) /\ Unobserved)
RegisterDelete ==
    \E c \in Clients, post_id \in PostIds :
        (delete_post(c, post_id) /\ Unobserved)

NextRegister == RegisterRegister \/ RegisterCreate \/ RegisterEdit \/ RegisterDelete

SpecRegister == Init /\ [][NextRegister]_vars

-----------------------------------------------------------------------------
(* SpecAnon: two clients without a user session, one of which may log in  *)
(* and out, like a post and follow a consultant; requests run one at a    *)
(* time                                                                    *)

AnonSignup == (signup_user_route("c2", <<"a">>, <<"q">>) /\ ObserveHist /\ UNCHANGED registered)
AnonLogin == (login_user_route("c2", <<"a">>, <<"q">>) /\ ObserveHist /\ UNCHANGED registered)
AnonLogout == (logout("c2") /\ ObserveHist /\ UNCHANGED registered)
AnonRegister == (RegisterAs("c1", "x") /\ ObserveHist /\ UNCHANGED registered)
AnonCreate == (consultant_post_submit("c1", "t1", NoneStr) /\ ObserveHist /\ UNCHANGED registered)
AnonLike == \E c \in Clients : (like_post(c, 1) /\ ObserveHist /\ UNCHANGED registered)
AnonFollow == \E c \in Clients : (follow_consultant(c, 1) /\ ObserveHist /\ UNCHANGED registered)

NextAnon ==
    \/ AnonSignup \/ AnonLogin \/ AnonLogout \/ AnonRegister \/ AnonCreate
    \/ AnonLike \/ AnonFollow

SpecAnon == Init /\ [][NextAnon]_vars

-----------------------------------------------------------------------------
(* SpecRace: like requests that overlap.  Each of the two request slots    *)
(* runs one like_post at a time, its read and its write as separate steps. *)

RaceSignup == (signup_user_route("c2", <<"a">>, <<"q">>) /\ Unobserved)
RaceLogin == (login_user_route("c2", <<"a">>, <<"q">>) /\ Unobserved)
RaceRegister == (RegisterAs("c1", "x") /\ Unobserved)
RaceCreate == (consultant_post_submit("c1", "t1", NoneStr) /\ Unobserved)
RaceLikeRead ==
    \E s \in Slots, c \in Clients : (like_post_read(s, c, 1) /\ Unobserved)
RaceLikeWrite == \E s \in Slots : (like_post_write(s) /\ Unobserved)

NextRace ==
    RaceSignup \/ RaceLogin \/ RaceRegister \/ RaceCreate \/ RaceLikeRead \/ RaceLikeWrite

SpecRace == Init /\ [][NextRace]_vars

-----------------------------------------------------------------------------
(* Spec: every handler with every input of the specifications above,      *)
(* requests run one at a time                                              *)

Observed == ObserveRegistered /\ ObserveHist

Next ==
    \/ \E c \in Clients, e \in AuthEmails, p \in AuthPasswords :
          (signup_user_route(c, e, p) /\ Observed)
    \/ \E c \in Clients, e \in AuthEmails, p \in AuthPasswords :
          (login_user_route(c, e, p) /\ Observed)
    \/ \E c \in Clients : (logout(c) /\ Observed)
    \/ \E c \in Clients, email \in {"x", "y"} : (RegisterAs(c, email) /\ Observed)
    \/ \E c \in Clients, media \in Files :
          (consultant_post_submit(c, "t1", media) /\ Observed)
    \/ \E c \in Clients, post_id \in PostIds, new_media \in Files :
          (edit_post(c, post_id, "t2", new_media) /\ Observed)
    \/ \E c \in Clients, post_id \in PostIds : (delete_post(c, post_id) /\ Observed)
    \/ \E c \in Clients, post_id \in PostIds : (like_post(c, post_id) /\ Observed)
    \/ \E c \in Clients, post_id \in PostIds, text \in CommentTexts :
          (comment_post(c, post_id, text) /\ Observed)
    \/ \E c \in Clients, consultant_id \in ConsultantIds :
          (follow_consultant(c, consultant_id) /\ Observed)
    \/ \E c \in Clients : (consultant_post_page(c) /\ Observed)
    \/ \E c \in Clients : (consultants_page(c, NoneText) /\ Observed)

Spec == Init /\ [][Next]_vars

-----------------------------------------------------------------------------
(* The error taxonomy, as the responses the handlers give *)

\* register_user's ValueError, rendered by signup_user_route
DuplicateEmail == Template("signup.html", "Email already registered. Please log in.")
\* login_user's None, rendered by login_user_route
NoMatch == Template("login.html", "Incorrect email or password.")
\* no consultant_id in the session
Unauthorized == Redirect("/consultant-register", 307)
\* HTTPException(status_code=403, ...)
Forbidden == 403
\* HTTPException(status_code=404, detail="Post not found")
NotFound == HTTPException(404, "Post not found")

PostExists(post_id) == Get(posts, post_id).id # NoneId
ConsultantExists(consultant_id) == Get(consultants, consultant_id).id # NoneId

-----------------------------------------------------------------------------
(* Properties *)

\* C1 (SpecRace): in every reachable state a post has at most one Like per
\* user (or anonymous actor), also when like_post requests for the same pair
\* overlap, each reading whether a Like exists and then, in a separate step,
\* deleting it or inserting one.
C1_AtMostOneLikePerPair ==
    \A l1 \in likes, l2 \in likes :
        (/\ PostExists(l1.post_id)
         /\ l1.user_id = l2.user_id
         /\ l1.post_id = l2.post_id) => l1 = l2

\* C2 (SpecLikes): with requests run one at a time, after a like_post by an
\* actor (a user or the anonymous actor) on an existing post the post's like
\* count is the count before plus 1 if the pair had no Like and minus 1 if it
\* had one; and after two such calls in succession the pair has as many Likes
\* as before the first.
C2_ToggleLikeTwiceRestores ==
    (hist # <<>> /\ hist[1].req.op = "like" /\ PostExists(hist[1].req.post_id)) =>
        /\ likes_count(likes, hist[1].req.post_id) =
              IF hist[1].n = 0 THEN hist[1].count + 1 ELSE hist[1].count - 1
        /\ Len(hist) = 2 => /\ PairCount(hist[1].req) = hist[2].n
                            /\ likes_count(likes, hist[1].req.post_id) = hist[2].count

\* A logged-in user unliked and liked again a post that another actor likes too.
C2_Witness ==
    /\ Len(hist) = 2
    /\ hist[1].req.op = "like"
    /\ hist[1].req.user_id # NoneId
    /\ PostExists(hist[1].req.post_id)
    /\ hist[2].n = 1
    /\ hist[2].count = 2
    /\ likes_count(likes, hist[1].req.post_id) = 2

\* C3 (SpecPosts): edit_post and delete_post from a session whose consultant
\* is not the owner of the existing post answer 403 and change neither the
\* posts nor the likes nor the comments.
C3_NonOwnerIsForbidden ==
    [][ (/\ req'.op \in {"edit_post", "delete_post"}
         /\ session[req'.client].consultant_id # NoneId
         /\ PostExists(req'.post_id)
         /\ Get(posts, req'.post_id).consultant_id # session[req'.client].consultant_id)
        => (/\ resp'.status = Forbidden
            /\ posts' = posts
            /\ likes' = likes
            /\ comments' = comments) ]_vars

\* A consultant was refused the deletion of another consultant's post that has
\* media, a like and a comment.
C3_Witness ==
    /\ req.op = "delete_post"
    /\ resp.status = Forbidden
    /\ session[req.client].consultant_id # NoneId
    /\ PostExists(req.post_id)
    /\ Get(posts, req.post_id).consultant_id # session[req.client].consultant_id
    /\ Get(posts, req.post_id).media_path # NoneStr
    /\ \E l \in likes : l.post_id = req.post_id
    /\ \E k \in comments : k.post_id = req.post_id

\* C4 (SpecLikes): like_post on a post id that does not exist, when the pair
\* has no Like, answers NotFound and creates no Like; and every Like created
\* carries the owning consultant of the post it references.
C4_LikeOfMissingPostIsNotFound ==
    [][ /\ (/\ req'.op = "like"
            /\ ~PostExists(req'.post_id)
            /\ LikesOf(likes, req'.post_id, req'.user_id) = {})
           => (resp' = NotFound /\ likes' = likes)
        /\ \A l \in likes' \ likes :
              /\ PostExists(l.post_id)
              /\ l.consultant_id = Get(posts, l.post_id).consultant_id ]_vars

\* C5 (SpecAuth): a signup whose email, trimmed and lowercased, is the email
\* of an existing User is answered DuplicateEmail and leaves users unchanged;
\* and no two Users ever have the same email.
C5_DuplicateEmailRejected ==
    [][ /\ (/\ req'.op = "signup"
            /\ \E u \in users : u.email = lower(strip(req'.email)))
           => (resp' = DuplicateEmail /\ users' = users)
        /\ \A u1 \in users', u2 \in users' : u1.email = u2.email => u1 = u2 ]_vars

\* With two Users registered, a signup under another spelling of a registered
\* email was refused.
C5_Witness ==
    /\ req.op = "signup"
    /\ resp = DuplicateEmail
    /\ Cardinality(users) = 2
    /\ req.email # lower(strip(req.email))
    /\ \A u \in users : u.email # req.email

\* C6 (SpecAuth): in every state reached after a successful signup,
\* login_user with the same email and password returns the User that signup
\* created.
C6_RegisterThenAuthenticate ==
    \A r \in registered : login_user(r.email, r.password).id = r.id

\* The second User, registered with an email and a password that both differ
\* from their stored forms, has logged in with them.
C6_Witness ==
    \E r \in registered :
        /\ r.id = 2
        /\ r.email # lower(strip(r.email))
        /\ r.password # strip(r.password)
        /\ req.op = "login"
        /\ req.email = r.email
        /\ req.password = r.password
        /\ session[req.client].user_id = r.id

UnknownEmail(email) == UserByEmail(lower(strip(email))).id = NoneId
WrongPassword(email, password) ==
    /\ ~UnknownEmail(email)
    /\ UserByEmail(lower(strip(email))).hashed_password # sha256(strip(password))

\* C7 (SpecAuth): a login with an unknown email and a login with a known
\* email and a wrong password get the same answer, login_user returns None
\* for both, and neither changes the store or the client's session.
C7_NoMatchIsUniform ==
    [][ (/\ req'.op = "login"
         /\ (UnknownEmail(req'.email) \/ WrongPassword(req'.email, req'.password)))
        => (/\ login_user(req'.email, req'.password).id = NoneId
            /\ resp' = NoMatch
            /\ session' = session
            /\ store' = store) ]_vars

\* A client that is logged in was refused a login with a known email and a
\* wrong password, while another email is still unknown.
C7_Witness ==
    /\ req.op = "login"
    /\ resp = NoMatch
    /\ WrongPassword(req.email, req.password)
    /\ session[req.client].user_id # NoneId
    /\ \E e \in AuthEmails : UnknownEmail(e)

\* C8 (SpecPosts): a create_post from a session without a consultant is
\* refused and creates no Post; a Post appears only by a create_post, with
\* the consultant of the creating session, and keeps that consultant_id as
\* long as it exists.
C8_PostsBelongToTheirCreator ==
    [][ /\ (req'.op = "create_post" /\ session[req'.client].consultant_id = NoneId)
           => (resp' = Unauthorized /\ posts' = posts)
        /\ \A p \in posts' :
              IF PostExists(p.id)
              THEN p.consultant_id = Get(posts, p.id).consultant_id
              ELSE /\ req'.op = "create_post"
                   /\ p.consultant_id # NoneId
                   /\ p.consultant_id = session[req'.client].consultant_id ]_vars

\* A client without a consultant identity was refused a post while another
\* consultant's post exists.
C8_Witness ==
    /\ req.op = "create_post"
    /\ resp = Unauthorized
    /\ session[req.client].consultant_id = NoneId
    /\ posts # {}

\* C9 (SpecFollow): with requests run one at a time there is at most one
\* Follower per (user, consultant) pair; a follow_consultant on an existing
\* consultant removes the pair's Follower if there is one and else creates
\* exactly one; and two such calls in succession leave the pair as it was.
C9_ToggleFollow ==
    /\ \A f1 \in followers, f2 \in followers :
          (f1.user_id = f2.user_id /\ f1.consultant_id = f2.consultant_id) => f1 = f2
    /\ (hist # <<>> /\ hist[1].req.op = "follow"
          /\ ConsultantExists(hist[1].req.consultant_id)) =>
          /\ PairCount(hist[1].req) = IF hist[1].n = 0 THEN 1 ELSE 0
          /\ TargetCount(hist[1].req) =
                IF hist[1].n = 0 THEN hist[1].count + 1 ELSE hist[1].count - 1
          /\ Len(hist) = 2 => PairCount(hist[1].req) = hist[2].n

\* A logged-in user followed and unfollowed a consultant that the anonymous
\* actor follows.
C9_Witness ==
    /\ Len(hist) = 2
    /\ hist[1].req.op = "follow"
    /\ hist[1].req.user_id # NoneId
    /\ ConsultantExists(hist[1].req.consultant_id)
    /\ hist[2].n = 0
    /\ hist[1].n = 1
    /\ hist[1].count = 2
    /\ PairCount(hist[1].req) = 0

\* The text is empty or holds whitespace only.
WhitespaceOnly(text) == \A i \in 1..Len(text) : text[i] \in Whitespace

\* C10 (SpecComments): a comment_post request adds a Comment if and only if its
\* text is not blank and the post exists, and then exactly one, last among
\* the post's comments, with the post's consultant; a blank text is answered
\* with the neutral redirect and a non-blank text on a missing post with
\* NotFound, both leaving the store unchanged.
C10_CommentIffTextAndPost ==
    [][ req'.op = "comment" =>
          IF WhitespaceOnly(req'.comment_text)
          THEN resp' = BackToReferer /\ store' = store
          ELSE IF ~PostExists(req'.post_id)
          THEN resp' = NotFound /\ store' = store
          ELSE /\ resp' = BackToReferer
               /\ <<users, consultants, posts, likes, followers>>' =
                     <<users, consultants, posts, likes, followers>>
               /\ \E k \in comments' \ comments :
                     /\ comments' = comments \cup {k}
                     /\ k.post_id = req'.post_id
                     /\ k.user_id = req'.user_id
                     /\ k.comment_text = req'.comment_text
                     /\ k.consultant_id = Get(posts, req'.post_id).consultant_id
                     /\ CommentsOf(comments', req'.post_id) =
                           Append(CommentsOf(comments, req'.post_id), k.id) ]_vars

\* A logged-in user's comment was appended to a post after an earlier comment.
C10_Witness ==
    /\ req.op = "comment"
    /\ req.user_id # NoneId
    /\ resp = BackToReferer
    /\ ~WhitespaceOnly(req.comment_text)
    /\ Len(CommentsOf(comments, req.post_id)) = 2
    /\ \E k \in comments :
          /\ k.id = CommentsOf(comments, req.post_id)[2]
          /\ k.timestamp = now - 1

\* The session of the request's client holds the consultant that owns the
\* existing post the request names.
ByOwner(r) ==
    /\ session[r.client].consultant_id # NoneId
    /\ PostExists(r.post_id)
    /\ Get(posts, r.post_id).consultant_id = session[r.client].consultant_id

\* C11 (SpecDelete): a delete_post by the consultant that owns the post
\* removes the post, every Like and every Comment whose post_id is that
\* post, and nothing else: the other Posts, Likes and Comments and all
\* Followers, Users and Consultants are as before; and afterwards no Like
\* and no Comment of that post is left.
C11_DeleteCascades ==
    [][ (req'.op = "delete_post" /\ ByOwner(req'))
        => (/\ posts' = {p \in posts : p.id # req'.post_id}
            /\ likes' = {l \in likes : l.post_id # req'.post_id}
            /\ comments' = {k \in comments : k.post_id # req'.post_id}
            /\ <<users, consultants, followers>>' = <<users, consultants, followers>>
            /\ \A p \in posts' : p.id # req'.post_id
            /\ \A l \in likes' : l.post_id # req'.post_id
            /\ \A k \in comments' : k.post_id # req'.post_id) ]_vars

\* The owner deleted a post that had a like and a comment, while another
\* post with a like, a user and a follower remain.
C11_Witness ==
    /\ hist # <<>>
    /\ hist[1].req.op = "delete_post"
    /\ resp = Redirect("/consultant_post", 303)
    /\ hist[1].n = 1
    /\ hist[1].count = 1
    /\ \E p \in posts : \E l \in likes : l.post_id = p.id
    /\ users # {}
    /\ followers # {}

\* C12 (SpecFollow): every Follower references a Consultant that exists; a
\* follow_consultant with a consultant id that identifies no Consultant, when
\* the pair has no Follower, is answered with the status of NotFound and
\* creates no Follower.
C12_FollowersReferenceConsultants ==
    [][ /\ (/\ req'.op = "follow"
            /\ ~ConsultantExists(req'.consultant_id)
            /\ FollowersOf(followers, req'.consultant_id, req'.user_id) = {})
           => (resp'.status = NotFound.status /\ followers' = followers)
        /\ \A f \in followers' : \E k \in consultants' : k.id = f.consultant_id ]_vars

\* The time at which consultant_post_submit created the post
CreatedAt(post_id) ==
    hist[CHOOSE i \in 1..Len(hist) : hist[i].n = post_id].count

\* C13 (SpecFeed): after any sequence of create_post and edit_post requests
\* the feed, under every specialization filter, lists the matching posts by
\* creation time, most recent first: a post created later precedes a post
\* created earlier, also when the earlier one has been edited since.
C13_FeedByCreationTime ==
    \A specialization \in FeedFilters :
        LET feed == feed_query(specialization)
        IN  \A i \in 1..Len(feed), j \in 1..Len(feed) :
                i < j => CreatedAt(feed[i]) > CreatedAt(feed[j])

\* The client has logged out and has since neither logged in nor registered
\* as a consultant.
LoggedOut(c) == \E i \in 1..Len(hist) : hist[i].req.client = c

\* C14 (SpecLogout): a logout leaves the client's session without user
\* identity and without consultant identity, the legacy entry included, and
\* changes neither the store nor another client's session; and from then
\* until the client logs in or registers as a consultant, its create_post,
\* edit_post and delete_post requests are refused without effect and the
\* likes, comments and follows it makes carry a null user reference.
C14_LogoutClearsIdentity ==
    [][ /\ req'.op = "logout" =>
              /\ session'[req'.client].user_id = NoneId
              /\ session'[req'.client].user_email = NoneText
              /\ session'[req'.client].consultant_id = NoneId
              /\ session'[req'.client].consultant_email = NoneStr
              /\ session'[req'.client].consultant = NoneDict
              /\ \A d \in Clients \ {req'.client} : session'[d] = session[d]
              /\ store' = store
        /\ (req'.op \in {"create_post", "edit_post", "delete_post"}
              /\ LoggedOut(req'.client))
           => (resp' = Unauthorized /\ store' = store /\ session' = session)
        /\ (req'.op \in {"like", "comment", "follow"} /\ LoggedOut(req'.client))
           => (/\ req'.user_id = NoneId
               /\ \A l \in likes' \ likes : l.user_id = NoneId
               /\ \A k \in comments' \ comments : k.user_id = NoneId
               /\ \A f \in followers' \ followers : f.user_id = NoneId)
        /\ (req'.op = "consultant_post_page" /\ LoggedOut(req'.client))
           => (resp' = Unauthorized /\ session' = session) ]_vars

\* A client that liked its own post as a user has logged out and has then,
\* with its last request, liked the post again: the new Like carries a null
\* user reference and stands beside the earlier one.
C14_Witness ==
    /\ LoggedOut("c2")
    /\ session["c2"] = EmptySession
    /\ req.op = "like"
    /\ req.client = "c2"
    /\ req.user_id = NoneId
    /\ resp = BackToReferer
    /\ \E l \in likes : l.user_id = NoneId /\ l.post_id = req.post_id
    /\ \E l \in likes : l.user_id # NoneId /\ l.post_id = req.post_id
    /\ \E k \in consultants : k.id = Get(posts, req.post_id).consultant_id

\* C15 (SpecRegister): with registrations run one at a time no two
\* Consultants have the same email; a registration under exactly the email
\* of an existing Consultant adds no record, overwrites that record's name,
\* specialization and bio and keeps its id and email, and puts that id into
\* the caller's session; and a client whose session holds the id of a post's
\* consultant edits and deletes the post.
C15_ReRegistrationTakesOver ==
    [][ /\ \A k1 \in consultants', k2 \in consultants' : k1.email = k2.email => k1 = k2
        /\ \A old \in consultants :
              (req'.op = "consultant_register" /\ old.email = req'.email)
              => /\ {k.id : k \in consultants'} = {k.id : k \in consultants}
                 /\ consultants' \ consultants \subseteq
                        {[old EXCEPT !.name = req'.name,
                                     !.specialization = req'.specialization,
                                     !.bio = req'.bio,
                                     !.media_path = media_path,
                                     !.media_type = media_type] :
                           media_path \in {old.media_path} \cup {SplitExtLower(f) : f \in Files},
                           media_type \in {old.media_type, "image"}}
                 /\ consultants \ consultants' \subseteq {old}
                 /\ Get(consultants', old.id).name = req'.name
                 /\ session'[req'.client].consultant_id = old.id
                 /\ \A p \in posts' :
                       p.consultant_id = old.id
                       => ~(p.id = NoneId \/ p.consultant_id # session'[req'.client].consultant_id)
        /\ (req'.op \in {"edit_post", "delete_post"} /\ ByOwner(req'))
           => /\ resp' = Redirect("/consultant_post", 303)
              /\ req'.op = "delete_post" => \A p \in posts' : p.id # req'.post_id
              /\ req'.op = "edit_post" => Get(posts', req'.post_id).content = "t2" ]_vars

\* Client c2, which creates no post, has registered under the email of the
\* consultant of client c1, which left one Consultant, now with c2's name,
\* and has with its last request edited a post.
C15_Witness ==
    /\ req.op = "edit_post"
    /\ req.client = "c2"
    /\ resp = Redirect("/consultant_post", 303)
    /\ Cardinality(consultants) = 1
    /\ \A k \in consultants : k.name = "n2"
    /\ session["c1"].consultant_id = session["c2"].consultant_id
    /\ Get(posts, req.post_id).content = "t2"

\* C16 (SpecAnon): with requests run one at a time a post has at most one
\* Like with a null user reference and a consultant at most one Follower
\* with a null user reference; and when a client without a user session
\* toggles right after another such client has created the Like (or the
\* Follower) of the same target, the record is removed and no second one is
\* added.
C16_AnonymousClientsAreOneActor ==
    /\ \A l1 \in likes, l2 \in likes :
          (l1.user_id = NoneId /\ l2.user_id = NoneId /\ l1.post_id = l2.post_id)
          => l1 = l2
    /\ \A f1 \in followers, f2 \in followers :
          (/\ f1.user_id = NoneId /\ f2.user_id = NoneId
           /\ f1.consultant_id = f2.consultant_id) => f1 = f2
    /\ (/\ Len(hist) = 2
        /\ hist[1].req.user_id = NoneId
        /\ hist[1].req.client # hist[2].req.client
        /\ hist[2].n = 0
        /\ hist[1].n = 1)
       => (/\ hist[1].req.op = "like" =>
                 \A l \in likes :
                    ~(l.user_id = NoneId /\ l.post_id = hist[1].req.post_id)
           /\ hist[1].req.op = "follow" =>
                 \A f \in followers :
                    ~(f.user_id = NoneId /\ f.consultant_id = hist[1].req.consultant_id))

\* One client without a user session followed a consultant and the other
\* such client's follow request removed that Follower, while a user's Like
\* and an anonymous Like stand on the consultant's post.
C16_Witness ==
    /\ Len(hist) = 2
    /\ hist[1].req.op = "follow"
    /\ hist[1].req.user_id = NoneId
    /\ hist[1].req.client # hist[2].req.client
    /\ hist[2].n = 0
    /\ hist[1].n = 1
    /\ ConsultantExists(hist[1].req.consultant_id)
    /\ followers = {}
    /\ \E l \in likes : l.user_id = NoneId /\ PostExists(l.post_id)
    /\ \E l \in likes : l.user_id # NoneId /\ PostExists(l.post_id)

=============================================================================
